---- MODULE Spec2Model ----
(***************************************************************************)
(* Model of the toolforest typed RPC core: the server-side dispatch        *)
(* handler (mcp_lambda_runtime/handler.py), the per-call invocation        *)
(* context (context.py) and the tool registry (registry.py) as populated   *)
(* by the math toolset (toolsets/math/src/lambda_handler.py).              *)
(*                                                                         *)
(* A dispatch is one call of handler(event, context) on one thread.  It is *)
(* split into the steps at which another thread of the same process can    *)
(* run: Enter (lines 28-37), Dispatch (lines 39-62 and 68), ToolCall       *)
(* (lines 63-66), each with the except clauses of lines 70-73, and Finally *)
(* (lines 74-87).  The wall clock (start, duration_ms, manifest_version)   *)
(* and the ENV variable are inputs that only flow into the telemetry       *)
(* record and the manifest; they are left out of the state.                *)
(***************************************************************************)
EXTENDS Integers, FiniteSets, Sequences, TLC

\* ---------------------------------------------------------------- bounds
\* Threads of one process that may run handler concurrently.
MaxThreads == 2
\* Numeric parameter values sent by callers range over 0..MaxNum.
MaxNum == 2
\* Directory entries handed to load_toolset_proxies.
MaxEntries == 2

Threads == 1..MaxThreads
\* The thread of a process that serves one request at a time.
MainThread == CHOOSE t \in Threads : \A u \in Threads : t <= u

\* ----------------------------------------------------------- JSON values
\* A JSON value is a tagged record; a JSON object carries a function from
\* its keys to JSON values.  Python's None is the JSON null.
JNull == [k |-> "null"]
JArr == [k |-> "arr"]
JStr(s) == [k |-> "str", s |-> s]
JNum(n) == [k |-> "num", n |-> n]
JObj(f) == [k |-> "obj", o |-> f]
None == JNull
EmptyDict == JObj(<<>>)

IsDict(v) == v.k = "obj"
IsStr(v) == v.k = "str"

\* dict.get(key, default)
DictGet(d, key, default) == IF key \in DOMAIN d.o THEN d.o[key] ELSE default

\* Python truthiness of a JSON value: None, "", 0, {} and [] are falsy
\* (the only array of the model is the empty one).
Truthy(v) ==
    CASE v.k = "null" -> FALSE
      [] v.k = "str" -> v.s # ""
      [] v.k = "num" -> v.n # 0
      [] v.k = "obj" -> DOMAIN v.o # {}
      [] v.k = "arr" -> FALSE

\* a or b
PyOr(a, b) == IF Truthy(a) THEN a ELSE b

\* str() of the numbers of the model
NumStr(n) ==
    CASE n = 0 -> "0" [] n = 1 -> "1" [] n = 2 -> "2" [] n = 3 -> "3"
      [] n = 4 -> "4" [] n = 5 -> "5" [] n = 6 -> "6" [] OTHER -> "n"

\* str(v) for the values handler applies it to: a truthy user_jwt or "".
PyStr(v) ==
    CASE v.k = "str" -> v.s
      [] v.k = "num" -> NumStr(v.n)
      [] v.k = "null" -> "None"
      [] v.k = "arr" -> "[]"
      [] v.k = "obj" -> "{...}"

\* ------------------------------------------------------------ context.py
\* RequestContext(user_jwt=...): the dataclass has the one field.
RequestContext(user_jwt) == [user_jwt |-> user_jwt]

\* The ContextVar's default RequestContext().
DefaultContext == RequestContext("")

\* A faulty set_request_context that stores the context in one slot shared
\* by every thread of the process.
SetRequestContextShared(cv, t, ctx) == [u \in DOMAIN cv |-> ctx]

\* _current_context.set(ctx) run on thread t: a ContextVar holds one value
\* per execution context, and every thread runs in a context of its own.
SetRequestContext(cv, t, ctx) == [cv EXCEPT ![t] = ctx]

\* get_user_jwt() run on thread t.
GetUserJwt(cv, t) == cv[t].user_jwt

\* ----------------------------------------------------------- registry.py
\* Field types of the Pydantic models of the math toolset.
ModelFields(model) ==
    CASE model = "AddParams" -> [x |-> "float", y |-> "float"]
      [] model = "AddResult" -> [value |-> "float"]
      [] model = "WhoAmIParams" -> <<>>
      [] model = "WhoAmIResult" -> [user_jwt |-> "str"]

\* Fields declared with Field(...), i.e. without a default.
RequiredFields(model) ==
    CASE model = "AddParams" -> {"x", "y"}
      [] model = "AddResult" -> {"value"}
      [] model = "WhoAmIParams" -> {}
      [] model = "WhoAmIResult" -> {}

\* The ToolSpecs that importing the math toolset registers, in order.
AddSpec == [name |-> "add", doc |-> "Add two numbers.",
            params_model |-> "AddParams", result_model |-> "AddResult"]
WhoAmISpec == [name |-> "whoami",
               doc |-> "Return the propagated user JWT for validation.",
               params_model |-> "WhoAmIParams", result_model |-> "WhoAmIResult"]

\* ToolRegistry.instance() once lambda_handler.py has been imported.
MathRegistry == [tools |-> <<AddSpec, WhoAmISpec>>,
                 toolset_name |-> JStr("math"),
                 toolset_version |-> JStr("0.1.0")]

\* list_names()
ListNames(reg) == {reg.tools[i].name : i \in DOMAIN reg.tools}

\* ------------------------------------------------------------ exceptions
\* A raised exception: its class, whether the class derives from Exception
\* (SystemExit and KeyboardInterrupt do not), RpcError's error_type, and
\* the message (str(e); e.message for an RpcError).
Exc(cls, msg) == [cls |-> cls, isException |-> TRUE, error_type |-> "", message |-> msg]
BaseExc(cls, msg) == [cls |-> cls, isException |-> FALSE, error_type |-> "", message |-> msg]
RpcError(error_type, msg) ==
    [cls |-> "RpcError", isException |-> TRUE, error_type |-> error_type, message |-> msg]

\* str(KeyError(name)) is the repr of the name.
KeyErrorStr(name) ==
    CASE name = "nope" -> "'nope'" [] name = "add" -> "'add'"
      [] name = "whoami" -> "'whoami'" [] OTHER -> "'?'"

\* get_tool(name): the spec, or KeyError(name).
GetTool(reg, name) ==
    IF name \in ListNames(reg)
    THEN [raised |-> FALSE,
          spec |-> reg.tools[CHOOSE i \in DOMAIN reg.tools : reg.tools[i].name = name]]
    ELSE [raised |-> TRUE, exc |-> Exc("KeyError", KeyErrorStr(name))]

\* -------------------------------------------------------------- Pydantic
\* float("<s>") for the strings of the model; "abc" is not a number.
IsNumericStr(s) == s \in {"0", "1", "2", "3"}
ParseFloat(s) == CASE s = "0" -> 0 [] s = "1" -> 1 [] s = "2" -> 2 [] s = "3" -> 3

\* Validation of one field in Pydantic's default (lax) mode: a float field
\* takes a number or a numeric string, a str field takes a string.
Coerce(type, v) ==
    CASE type = "float" /\ v.k = "num" -> [ok |-> TRUE, v |-> v]
      [] type = "float" /\ v.k = "str" /\ IsNumericStr(v.s) ->
            [ok |-> TRUE, v |-> JNum(ParseFloat(v.s))]
      [] type = "str" /\ v.k = "str" -> [ok |-> TRUE, v |-> v]
      [] OTHER -> [ok |-> FALSE, v |-> v]

\* model(**raw): every required field is present, every declared field
\* that is present validates, and undeclared keys are ignored.
Validate(model, raw) ==
    LET fields == ModelFields(model)
        present == {f \in DOMAIN raw.o : f \in DOMAIN fields}
        missing == {f \in RequiredFields(model) : f \notin DOMAIN raw.o}
        bad == {f \in present : ~Coerce(fields[f], raw.o[f]).ok}
    IN  IF missing = {} /\ bad = {}
        THEN [ok |-> TRUE,
              value |-> [f \in present |-> Coerce(fields[f], raw.o[f]).v]]
        ELSE [ok |-> FALSE, value |-> <<>>]

\* An instance of a Pydantic model class holding the given field values.
Instance(cls, fields) == [k |-> "instance", cls |-> cls, f |-> fields]

\* isinstance(v, cls)
IsInstance(v, cls) == v.k = "instance" /\ v.cls = cls

\* A faulty model_dump that drops the fields.
ModelDumpEmpty(v) == EmptyDict

\* v.model_dump(): the fields as a plain dict, whatever they hold.
ModelDump(v) == JObj(v.f)

\* model_json_schema(): the declared properties and the required ones.
ModelJsonSchema(model) ==
    [properties |-> ModelFields(model), required |-> RequiredFields(model)]

\* A value conforms to a model's schema when it carries the model's fields
\* and each one has the declared JSON type (float: number, str: string).
ConformsToSchema(v, model) ==
    LET fields == ModelFields(model)
        held == IF v.k = "instance" THEN v.f ELSE IF v.k = "obj" THEN v.o ELSE <<>>
    IN  /\ v.k \in {"instance", "obj"}
        /\ \A f \in RequiredFields(model) : f \in DOMAIN held
        /\ \A f \in DOMAIN held :
              f \in DOMAIN fields =>
                 \/ fields[f] = "float" /\ held[f].k = "num"
                 \/ fields[f] = "str" /\ held[f].k = "str"

\* A faulty describe that leaves out the spec registered last.
DescribeDroppingLast(reg) ==
    [i \in 1..(Len(reg.tools) - 1) |->
        [name |-> reg.tools[i].name,
         doc |-> reg.tools[i].doc,
         params_schema |-> ModelJsonSchema(reg.tools[i].params_model),
         result_schema |-> ModelJsonSchema(reg.tools[i].result_model)]]

\* describe(): one descriptor per registered spec, in registration order.
Describe(reg) ==
    [i \in DOMAIN reg.tools |->
        [name |-> reg.tools[i].name,
         doc |-> reg.tools[i].doc,
         params_schema |-> ModelJsonSchema(reg.tools[i].params_model),
         result_schema |-> ModelJsonSchema(reg.tools[i].result_model)]]

\* ------------------------------------------------- tool implementations
\* What a registered function can do when handler calls it.  "ok" is the
\* function of the math toolset; the others are the behaviours open to any
\* function registered with @tool.
Behaviours ==
    {"ok", "invalid_instance", "plain_dict", "wrong_type", "raise_exception",
     "raise_rpc_bad_request", "raise_rpc_custom", "raise_system_exit"}

\* add(params): AddResult(value=params.x + params.y)
Add(params) == Instance("AddResult", [value |-> JNum(params.x.n + params.y.n)])

\* whoami(params): WhoAmIResult(user_jwt=get_user_jwt())
WhoAmI(params, jwt) == Instance("WhoAmIResult", [user_jwt |-> JStr(jwt)])

\* spec.func(params_model), jwt being what get_user_jwt() returns to it.
ToolFunc(spec, params, jwt, beh) ==
    CASE beh = "ok" ->
            [raised |-> FALSE,
             value |-> IF spec.name = "add" THEN Add(params) ELSE WhoAmI(params, jwt)]
      [] beh = "invalid_instance" ->
            \* built with model_construct, or a field assigned after validation
            [raised |-> FALSE,
             value |-> IF spec.result_model = "AddResult"
                       THEN Instance("AddResult", [value |-> JStr("abc")])
                       ELSE Instance("WhoAmIResult", [user_jwt |-> JNum(1)])]
      [] beh = "plain_dict" ->
            \* a dict shaped like the result, not an instance of the model
            [raised |-> FALSE,
             value |-> IF spec.result_model = "AddResult"
                       THEN JObj([value |-> JNum(1)])
                       ELSE JObj([user_jwt |-> JStr(jwt)])]
      [] beh = "wrong_type" ->
            [raised |-> FALSE, value |-> None]
      [] beh = "raise_exception" ->
            [raised |-> TRUE, exc |-> Exc("ValueError", "boom")]
      [] beh = "raise_rpc_bad_request" ->
            [raised |-> TRUE, exc |-> RpcError("BadRequest", "boom")]
      [] beh = "raise_rpc_custom" ->
            [raised |-> TRUE, exc |-> RpcError("Teapot", "boom")]
      [] beh = "raise_system_exit" ->
            [raised |-> TRUE, exc |-> BaseExc("SystemExit", "boom")]

\* ------------------------------------------------------------ handler.py
\* A faulty _response that always carries both members.
ResponseBoth(result, error) == [result |-> result, error |-> error]

\* _response(result, error)
Response(result, error) ==
    IF error # None THEN [error |-> error] ELSE [result |-> result]

\* A faulty extraction that applies str() before the default, so that a
\* context without a token yields "None".
ExtractTokenNoDefault(ev) ==
    LET ctx == PyOr(DictGet(ev, "context", None), EmptyDict)
    IN  IF IsDict(ctx) THEN PyStr(DictGet(ctx, "user_jwt", None)) ELSE ""

\* Lines 33-36: the token of the request, "" by default.
ExtractToken(ev) ==
    LET ctx == PyOr(DictGet(ev, "context", None), EmptyDict)
    IN  IF IsDict(ctx)
        THEN PyStr(PyOr(DictGet(ctx, "user_jwt", None), JStr("")))
        ELSE ""

\* The RpcErrors handler raises itself.
MethodNotString == RpcError("BadRequest", "'method' must be a string")
ParamsNotObject == RpcError("BadRequest", "'params' must be an object")
\* A faulty line 68 that reports an unknown action as a server fault.
UnknownActionAsInternal == RpcError("InternalError", "Unknown action")
\* Line 68
UnknownAction == RpcError("BadRequest", "Unknown action")

\* A faulty line 62 that reports a schema failure as a bad request.
ValidationFailureAsBadRequest(diagnostics) == RpcError("BadRequest", diagnostics)

\* Line 62: RpcError("ValidationError", ve.json())
ValidationFailure(diagnostics) == RpcError("ValidationError", diagnostics)

\* Line 65
WrongResultType == RpcError("InternalError", "Tool returned wrong result type")

\* Lines 43-48, without the generation timestamp.
Manifest(reg) ==
    [toolset |-> PyOr(reg.toolset_name, JStr("unknown")),
     toolset_version |-> PyOr(reg.toolset_version, JStr("0.0.0")),
     tools |-> Describe(reg)]

\* Lines 40-62 and 68: the try block up to the call of the implementation.
\* It returns a response, raises, or reaches line 63 with a spec and the
\* validated params.
TryBody(reg, ev) ==
    LET action == DictGet(ev, "action", None)
        method == DictGet(ev, "method", None)
        found == GetTool(reg, method.s)
        raw_params == DictGet(ev, "params", EmptyDict)
        validated == Validate(found.spec.params_model, raw_params)
    IN  IF action = JStr("describe_tools")
        THEN [kind |-> "return", resp |-> Response(Manifest(reg), None)]
        ELSE IF action = JStr("invoke")
        THEN IF ~IsStr(method) THEN [kind |-> "raise", exc |-> MethodNotString]
             ELSE IF found.raised THEN [kind |-> "raise", exc |-> found.exc]
             ELSE IF ~IsDict(raw_params) THEN [kind |-> "raise", exc |-> ParamsNotObject]
             ELSE IF ~validated.ok
                  THEN [kind |-> "raise", exc |-> ValidationFailure("ve.json()")]
             ELSE [kind |-> "call", spec |-> found.spec, params |-> validated.value]
        ELSE [kind |-> "raise", exc |-> UnknownAction]

\* A faulty lookup that takes the spec out of the table (pop in the place
\* of the subscript of line 55 of registry.py).
RegistryAfterPopping(reg, ev) ==
    LET action == DictGet(ev, "action", None)
        method == DictGet(ev, "method", None)
    IN  IF action = JStr("invoke") /\ IsStr(method)
        THEN [reg EXCEPT !.tools = SelectSeq(@, LAMBDA sp : sp.name # method.s)]
        ELSE reg

\* The registry after lines 40-62 and 68: describe (registry.py lines
\* 37-50), get_tool (lines 52-55) and the reads of toolset_name and
\* toolset_version assign nothing in the registry.
RegistryAfter(reg, ev) == reg

\* Lines 64-66: what follows the return of the implementation.
AfterCall(spec, value) ==
    IF ~IsInstance(value, spec.result_model)
    THEN [kind |-> "raise", exc |-> WrongResultType]
    ELSE [kind |-> "return", resp |-> Response(ModelDump(value), None)]

\* Lines 70-73: an RpcError becomes an error envelope with its own type,
\* any other Exception becomes InternalError; anything else propagates.
Except(e) ==
    IF e.cls = "RpcError"
    THEN [handled |-> TRUE,
          resp |-> Response(None, [type |-> e.error_type, message |-> e.message])]
    ELSE IF e.isException
    THEN [handled |-> TRUE,
          resp |-> Response(None, [type |-> "InternalError", message |-> e.message])]
    ELSE [handled |-> FALSE, resp |-> None]

\* Lines 76-87: the telemetry record.
Telemetry(ev, user_jwt) ==
    [level |-> "INFO", event |-> "lambda_request",
     action |-> DictGet(ev, "action", None),
     has_user_jwt |-> user_jwt # ""]

\* ------------------------------------------------------------ proxies.py
\* A JSON array with the given elements.
JList(elems) == [k |-> "list", a |-> elems]

\* The text of a payload: JSON text, the empty string, or text that is not
\* JSON.  json.dumps gives JSON text, json.loads takes it back or raises.
JsonText(v) == [text |-> "json", v |-> v]
EmptyBody == [text |-> "empty"]
GarbageBody == [text |-> "garbage"]
JsonDumps(v) == JsonText(v)
JsonLoads(body) ==
    IF body.text = "json"
    THEN [raised |-> FALSE, value |-> body.v]
    ELSE [raised |-> TRUE, exc |-> Exc("JSONDecodeError", "Expecting value")]

\* body or "{}"
BodyOrEmptyObject(body) == IF body = EmptyBody THEN JsonText(EmptyDict) ELSE body

\* A faulty attempt that raises the application error inside the retried
\* function, where tenacity sees it.
AttemptResultRaisingOnError(out) ==
    IF ~out.completed
    THEN [raised |-> TRUE, exc |-> Exc("ClientError", "transport")]
    ELSE IF out.body.text = "json" /\ "error" \in DOMAIN out.body.v.o
    THEN [raised |-> TRUE, exc |-> Exc("RuntimeError", "application error")]
    ELSE JsonLoads(BodyOrEmptyObject(out.body))

\* Lines 13-16, one attempt: client.invoke and the read of the payload
\* either fail (connection refused, timeout, throttling) or complete with
\* a body, which is then decoded.
AttemptResult(out) ==
    IF ~out.completed
    THEN [raised |-> TRUE, exc |-> Exc("ClientError", "transport")]
    ELSE JsonLoads(BodyOrEmptyObject(out.body))

\* Line 11: stop_after_attempt(3) and wait_exponential(multiplier=0.2,
\* min=0.2, max=2), in milliseconds.
StopAfterAttempt == 3
WaitMultiplierMs == 200
WaitMinMs == 200
WaitMaxMs == 2000

Pow2(n) == IF n <= 0 THEN 1 ELSE IF n = 1 THEN 2 ELSE IF n = 2 THEN 4 ELSE 8
Min2(a, b) == IF a <= b THEN a ELSE b
Max2(a, b) == IF a >= b THEN a ELSE b

\* A faulty backoff whose exponent is the attempt number, so that the
\* first wait is the doubled one.
WaitExponentialDoubled(attempt_number) ==
    Max2(Max2(0, WaitMinMs),
         Min2(WaitMultiplierMs * Pow2(attempt_number), WaitMaxMs))

\* The wait after the given attempt has failed.
WaitExponential(attempt_number) ==
    Max2(Max2(0, WaitMinMs),
         Min2(WaitMultiplierMs * Pow2(attempt_number - 1), WaitMaxMs))

\* Line 11 names no retry predicate, so tenacity retries on every
\* exception that the attempt raises.
ShouldRetry(r) == r.raised

\* A faulty stop condition that allows one attempt more.
ShouldStopLate(attempt_number) == attempt_number >= StopAfterAttempt + 1

\* stop_after_attempt: no further attempt once the budget is used.
ShouldStop(attempt_number) == attempt_number >= StopAfterAttempt

\* A call of _invoke_lambda(function_name, payload) before its first
\* attempt: the attempts made so far (whether each completed, the body it
\* brought and whether that decoded), the waits between them, and how the
\* call ended.
NewInvocation(function_name, payload) ==
    [function_name |-> function_name, payload |-> JsonDumps(payload),
     attempts |-> <<>>, waits |-> <<>>, status |-> "running",
     value |-> None, exc |-> None]

\* One more attempt of the retried _invoke_lambda with the given outcome
\* of the transport.
RetryStep(inv, out) ==
    LET r == AttemptResult(out)
        n == Len(inv.attempts) + 1
        made == Append(inv.attempts,
                       [completed |-> out.completed, decoded |-> ~r.raised,
                        body |-> out.body])
    IN  IF ~ShouldRetry(r)
        THEN [inv EXCEPT !.attempts = made, !.status = "returned", !.value = r.value]
        ELSE IF ShouldStop(n)
        THEN [inv EXCEPT !.attempts = made, !.status = "raised",
                         !.exc = Exc("RetryError", r.exc.cls)]
        ELSE [inv EXCEPT !.attempts = made,
                         !.waits = Append(@, WaitExponential(n))]

\* Line 22: the alias-qualified reference, else the base reference.
EndpointRef(entry) ==
    PyOr(DictGet(entry, "alias_arn", None), DictGet(entry, "lambda_function_arn", None))

\* Line 23
ToolsetName(entry) == DictGet(entry, "name", JStr("unknown"))

\* Lines 22-23 for one entry of the list that load_registry returned:
\* entry.get exists on a dict only, on any other JSON value the read
\* raises AttributeError.
ReadEntry(entry) ==
    IF IsDict(entry)
    THEN [raised |-> FALSE, alias_arn |-> EndpointRef(entry),
          toolset_name |-> ToolsetName(entry)]
    ELSE [raised |-> TRUE, exc |-> Exc("AttributeError", "object has no attribute 'get'")]

\* Line 27: manifest.get("result", {}).get("tools", [])
ManifestTools(manifest) ==
    DictGet(DictGet(manifest, "result", EmptyDict), "tools", JList(<<>>))

\* f"{toolset_name}.{method_name}" for the names of the model.
FormatKey(toolset_name, method_name) ==
    CASE toolset_name = "math" /\ method_name = "add" -> "math.add"
      [] toolset_name = "math" /\ method_name = "whoami" -> "math.whoami"
      [] toolset_name = "text" /\ method_name = "add" -> "text.add"
      [] toolset_name = "text" /\ method_name = "whoami" -> "text.whoami"
      [] toolset_name = "unknown" /\ method_name = "add" -> "unknown.add"
      [] toolset_name = "unknown" /\ method_name = "whoami" -> "unknown.whoami"

\* mcp_server.py line 31: fq_name.split(".", 1)[-1], what follows the first
\* dot, for the keys of the model.
AppToolName(fq_name) ==
    CASE fq_name = "math.add" -> "add"
      [] fq_name = "math.whoami" -> "whoami"
      [] fq_name = "text.add" -> "add"
      [] fq_name = "text.whoami" -> "whoami"
      [] fq_name = "unknown.add" -> "add"
      [] fq_name = "unknown.whoami" -> "whoami"

\* Lines 29-52 for one entry: every tool of the manifest is bound, in
\* order, to (alias_arn, method_name) under its key; a key already in the
\* mapping is overwritten.
RECURSIVE AddProxies(_, _, _, _)
AddProxies(proxies, toolset_name, alias_arn, tools) ==
    IF tools = <<>> THEN proxies
    ELSE LET method_name == Head(tools).o["name"].s
             key == FormatKey(toolset_name, method_name)
             bound == [function_arn |-> alias_arn, method |-> method_name]
         IN  AddProxies([kk \in DOMAIN proxies \cup {key} |->
                            IF kk = key THEN bound ELSE proxies[kk]],
                        toolset_name, alias_arn, Tail(tools))

\* A faulty payload that names the proxy's key instead of its method.
InvokePayloadKeyed(method, kwargs) ==
    JObj([action |-> JStr("invoke"), method |-> JStr("key"), params |-> kwargs])

\* Line 35: the envelope of a proxy call.  Nothing but the action, the
\* method and the keyword arguments goes into it.
InvokePayload(method, kwargs) ==
    JObj([action |-> JStr("invoke"), method |-> JStr(method), params |-> kwargs])

\* f"{err.get('type')}: {err.get('message')}" for the errors of the model.
FormatError(type, message) ==
    CASE type = JStr("ValidationError") /\ message = JStr("m") -> "ValidationError: m"
      [] type = JStr("InternalError") /\ message = JStr("boom") -> "InternalError: boom"
      [] type = None /\ message = None -> "None: None"
      [] OTHER -> "?: ?"

\* A faulty line 39 that hands back the whole response.
CallOutcomeWhole(resp) == [kind |-> "returned", value |-> resp]

\* Lines 36-39: a response with an error member raises RuntimeError, any
\* other response returns its result member, None when it has none.
CallOutcome(resp) ==
    IF "error" \in DOMAIN resp.o
    THEN [kind |-> "raised",
          exc |-> Exc("RuntimeError",
                      FormatError(DictGet(resp.o["error"], "type", None),
                                  DictGet(resp.o["error"], "message", None)))]
    ELSE [kind |-> "returned", value |-> DictGet(resp, "result", None)]

\* ---------------------------------------------------------------- inputs
\* Marks a member that the envelope does not have.
Absent == [k |-> "absent"]

\* The object with the given members, the absent ones left out.
MkObj(members) ==
    JObj([key \in {m \in DOMAIN members : members[m] # Absent} |-> members[key]])

ActionVals == {Absent, JStr("describe_tools"), JStr("invoke"), JStr("other"), JNum(1)}
MethodVals == {Absent, JStr("add"), JStr("whoami"), JStr("nope"), JNum(1)}
FieldVals == {Absent, JStr("1"), JStr("abc")} \cup {JNum(n) : n \in 0..MaxNum}
ParamsVals ==
    {Absent, JNull, JArr} \cup {MkObj([x |-> vx, y |-> vy]) : vx, vy \in FieldVals}
ContextVals ==
    {Absent, JNull, JStr("tokA"), EmptyDict,
     JObj([user_jwt |-> JStr("tokA")]), JObj([user_jwt |-> JStr("tokB")]),
     JObj([user_jwt |-> JStr("")]), JObj([user_jwt |-> JNum(1)])}

\* Every inbound event: envelopes that are not objects, and objects with
\* any combination of the four members.
Events ==
    {JNull, JArr, JStr("invoke")} \cup
    {MkObj([action |-> a, method |-> m, params |-> p, context |-> c]) :
        a \in ActionVals, m \in MethodVals, p \in ParamsVals, c \in ContextVals}

\* The events that concurrent callers with different tokens send: calls of
\* the token-reading tool, manifest requests, and a malformed envelope.
ConcEvents ==
    {MkObj([action |-> a, method |-> JStr("whoami"),
            params |-> EmptyDict, context |-> c]) :
        a \in {JStr("invoke"), JStr("describe_tools")},
        c \in {Absent, JObj([user_jwt |-> JStr("tokA")]),
               JObj([user_jwt |-> JStr("tokB")])}}
    \cup {JNull}

\* Directory entries as the deployment writes them: with an alias, without
\* one, without a name, and a second toolset that uses a name again.
MathEntry ==
    JObj([name |-> JStr("math"), lambda_function_arn |-> JStr("arn:math"),
          alias_arn |-> JStr("arn:math:live")])
TextEntry ==
    JObj([name |-> JStr("text"), lambda_function_arn |-> JStr("arn:text"),
          alias_arn |-> JNull])
UnnamedEntry == JObj([lambda_function_arn |-> JStr("arn:anon")])
MathAgainEntry ==
    JObj([name |-> JStr("math"), lambda_function_arn |-> JStr("arn:math2")])
EntrySet == {MathEntry, TextEntry, UnnamedEntry, MathAgainEntry}

\* The lists of at most MaxEntries directory entries.
EntryLists == UNION {[1..n -> EntrySet] : n \in 0..MaxEntries}

\* Tool descriptors of a manifest; a proxy reads the name.
AddTool == JObj([name |-> JStr("add"), doc |-> JStr("Add two numbers.")])
WhoAmITool == JObj([name |-> JStr("whoami"), doc |-> JStr("")])

\* The bodies that the remote side can answer with: manifests, a result, an
\* application error, an object with neither member, the empty body, and
\* text that is not JSON.
Bodies ==
    {JsonText(JObj([result |-> JObj([tools |-> JList(<<AddTool, WhoAmITool>>)])])),
     JsonText(JObj([result |-> JObj([tools |-> JList(<<AddTool>>)])])),
     JsonText(JObj([result |-> JObj([value |-> JNum(3)])])),
     JsonText(JObj([error |-> JObj([type |-> JStr("ValidationError"),
                                    message |-> JStr("m")])])),
     JsonText(JObj([foreign |-> JNum(1)])),
     EmptyBody, GarbageBody}

\* What the transport does with one attempt.
TransportOutcomes ==
    {[completed |-> FALSE, body |-> EmptyBody]}
    \cup {[completed |-> TRUE, body |-> b] : b \in Bodies}

\* The keyword arguments of the proxy calls.
KwargsSet == {EmptyDict, JObj([x |-> JNum(1), y |-> JNum(2)])}

\* What the host hands to set_context_provider (mcp_server.py line 25): no
\* provider, or get_context returning the current token.
ProviderSet == {None, JObj([user_jwt |-> JStr("tokA")])}

\* --------------------------------------------- registry.py, its objects
\* Registries that a program constructs itself with ToolRegistry().
MaxRegistries == 2

\* The value of ToolRegistry._instance and of a reference that holds no
\* registry: None.  The objects are numbered from one in heap.
NoObject == 0

\* Lines 21-24: a new ToolRegistry has no tools and no toolset identity.
NewToolRegistry ==
    [tools |-> <<>>, toolset_name |-> None, toolset_version |-> None]

\* The spec that @tool(name="add") makes of whoami: the name of AddSpec
\* with another doc, other models and another function.
OtherAddSpec ==
    [name |-> "add", doc |-> "Return the propagated user JWT for validation.",
     params_model |-> "WhoAmIParams", result_model |-> "WhoAmIResult"]

\* The specs handed to register.
SpecSet == {AddSpec, WhoAmISpec, OtherAddSpec}

\* f"Tool '{spec.name}' already registered"
AlreadyRegistered(name) ==
    CASE name = "add" -> "Tool 'add' already registered"
      [] name = "whoami" -> "Tool 'whoami' already registered"
      [] OTHER -> "Tool '?' already registered"

\* self._tools[spec.name] = spec: a new key goes to the end of the dict, a
\* key already there keeps its place and takes the new spec.
SetTool(reg, spec) ==
    IF spec.name \in ListNames(reg)
    THEN [reg EXCEPT !.tools =
            [i \in DOMAIN @ |-> IF @[i].name = spec.name THEN spec ELSE @[i]]]
    ELSE [reg EXCEPT !.tools = Append(@, spec)]

\* A faulty register without the check of line 33.
RegisterReplacing(reg, spec) ==
    [raised |-> FALSE, exc |-> None, reg |-> SetTool(reg, spec)]

\* A faulty register that writes the spec before it raises.
RegisterWritingFirst(reg, spec) ==
    IF spec.name \in ListNames(reg)
    THEN [raised |-> TRUE,
          exc |-> Exc("ValueError", AlreadyRegistered(spec.name)),
          reg |-> SetTool(reg, spec)]
    ELSE [raised |-> FALSE, exc |-> None, reg |-> SetTool(reg, spec)]

\* Lines 32-35: register(spec) raises ValueError for a name already in the
\* table and leaves the table alone, else it adds the spec.
Register(reg, spec) ==
    IF spec.name \in ListNames(reg)
    THEN [raised |-> TRUE,
          exc |-> Exc("ValueError", AlreadyRegistered(spec.name)),
          reg |-> reg]
    ELSE [raised |-> FALSE, exc |-> None, reg |-> SetTool(reg, spec)]

\* ---------------------------------------------------------- decorators.py
\* The functions that a toolset decorates: __name__, the stripped __doc__,
\* and what get_type_hints resolves for them.  scale takes a float, ping
\* has no return annotation.
AddFunction ==
    [name |-> "add", doc |-> "Add two numbers.",
     hints |-> [params |-> "AddParams", return |-> "AddResult"]]
WhoAmIFunction ==
    [name |-> "whoami", doc |-> "Return the propagated user JWT for validation.",
     hints |-> [params |-> "WhoAmIParams", return |-> "WhoAmIResult"]]
ScaleFunction ==
    [name |-> "scale", doc |-> "",
     hints |-> [params |-> "float", return |-> "AddResult"]]
PingFunction ==
    [name |-> "ping", doc |-> "", hints |-> [params |-> "WhoAmIParams"]]

\* The applications of @tool: plain, and with the name keyword.
Decorations ==
    {[f |-> AddFunction, name |-> None], [f |-> WhoAmIFunction, name |-> None],
     [f |-> WhoAmIFunction, name |-> JStr("add")],
     [f |-> ScaleFunction, name |-> None], [f |-> PingFunction, name |-> None]}

\* hints.get(key): the annotation, "None" when there is none.
HintsGet(f, key) == IF key \in DOMAIN f.hints THEN f.hints[key] ELSE "None"

\* isinstance(h, type) and issubclass(h, BaseModel)
IsBaseModel(h) == h \in {"AddParams", "AddResult", "WhoAmIParams", "WhoAmIResult"}

\* Line 20: name or f.__name__
ToolName(d) == PyOr(d.name, JStr(d.f.name)).s

\* Lines 32-38: the ToolSpec built from the decoration and the models.
MakeSpec(d, params_model, result_model) ==
    [name |-> ToolName(d), doc |-> d.f.doc,
     params_model |-> params_model, result_model |-> result_model]

\* The outcome of decorator(f): whether it raised and what, the registry
\* it leaves, and the calls of f that it made.
Decorated(r, called) ==
    [raised |-> r.raised, exc |-> r.exc, reg |-> r.reg, called |-> called]

\* A faulty decorator that registers before it checks, an empty model
\* standing in for an annotation that is not a model.
ToolDecoratorRegisteringFirst(reg, d) ==
    LET params_model == HintsGet(d.f, "params")
        result_model == HintsGet(d.f, "return")
        written == Register(reg, MakeSpec(d,
                       IF IsBaseModel(params_model) THEN params_model ELSE "WhoAmIParams",
                       IF IsBaseModel(result_model) THEN result_model ELSE "WhoAmIResult"))
    IN  IF ~IsBaseModel(params_model) \/ ~IsBaseModel(result_model)
        THEN Decorated([raised |-> TRUE, reg |-> written.reg,
                        exc |-> Exc("TypeError", "must annotate with a Pydantic BaseModel")],
                       <<>>)
        ELSE Decorated(written, <<>>)

\* A faulty decorator that calls the function once to try it out.
ToolDecoratorProbing(reg, d) ==
    LET params_model == HintsGet(d.f, "params")
        result_model == HintsGet(d.f, "return")
    IN  IF ~IsBaseModel(params_model) \/ ~IsBaseModel(result_model)
        THEN Decorated([raised |-> TRUE, reg |-> reg,
                        exc |-> Exc("TypeError", "must annotate with a Pydantic BaseModel")],
                       <<>>)
        ELSE Decorated(Register(reg, MakeSpec(d, params_model, result_model)),
                       <<d.f.name>>)

\* Lines 20-39 on the registry that line 19 obtained: the annotation checks
\* raise TypeError, then the spec is built and registered.  The function is
\* read by get_type_hints and stored in the spec; no line calls it.
ToolDecorator(reg, d) ==
    LET params_model == HintsGet(d.f, "params")
        result_model == HintsGet(d.f, "return")
    IN  IF ~IsBaseModel(params_model)
        THEN Decorated([raised |-> TRUE, reg |-> reg,
                        exc |-> Exc("TypeError", "must annotate 'params' with a Pydantic BaseModel")],
                       <<>>)
        ELSE IF ~IsBaseModel(result_model)
        THEN Decorated([raised |-> TRUE, reg |-> reg,
                        exc |-> Exc("TypeError", "must annotate return type with a Pydantic BaseModel")],
                       <<>>)
        ELSE Decorated(Register(reg, MakeSpec(d, params_model, result_model)), <<>>)

\* The spec and the validated params of a direct call of a function of the
\* math toolset (test_math.py lines 6-9).
FunctionSpec(f) == IF f.name = "add" THEN AddSpec ELSE WhoAmISpec
DirectParams(f) ==
    IF f.name = "add"
    THEN {[x |-> JNum(a), y |-> JNum(b)] : a, b \in 0..MaxNum}
    ELSE {<<>>}

\* Lines 41-43: wrapper(*args, **kwargs) returns f(*args, **kwargs).
Wrapper(f, params, jwt, beh) == ToolFunc(FunctionSpec(f), params, jwt, beh)

\* No operation on a registry has completed yet.
NoOp == [kind |-> "none"]

\* lambda_handler.py lines 40-41: the attributes assigned and their values.
Metadata == {<<"toolset_name", JStr("math")>>, <<"toolset_version", JStr("0.1.0")>>}

\* ------------------------------------- mcp_remote_toolsets/registry.py
\* The pages that the paginator yields and the parameters of a page.
MaxPages == 2
MaxParams == 2

\* The values stored under the path: an entry, JSON that is a number,
\* text that is not JSON, and the empty string.
StoredValues ==
    {JsonDumps(MathEntry), JsonDumps(JNum(1)), GarbageBody, EmptyBody}

\* A page of get_parameters_by_path: its Parameters, or no such key.
ParamLists == UNION {[1..n -> {[Value |-> v] : v \in StoredValues}] : n \in 0..MaxParams}
PageSet == {<<>>} \cup {[Parameters |-> ps] : ps \in ParamLists}
PageLists == UNION {[1..n -> PageSet] : n \in 0..MaxPages}

\* Line 15: page.get("Parameters", [])
PageParameters(page) ==
    IF "Parameters" \in DOMAIN page THEN page.Parameters ELSE <<>>

\* A faulty loop body that keeps a null in the place of a corrupt value.
AppendDecodedOrNull(es, param) ==
    LET r == JsonLoads(param.Value)
    IN  IF r.raised THEN Append(es, None) ELSE Append(es, r.value)

\* Lines 16-23: the value is decoded and appended; when that raises, the
\* except clause goes on to the next parameter.
AppendDecoded(es, param) ==
    LET r == JsonLoads(param.Value)
    IN  IF r.raised THEN es ELSE Append(es, r.value)

\* Lines 15-23 for the parameters of one page, in order.
RECURSIVE LoadPage(_, _)
LoadPage(es, params) ==
    IF params = <<>> THEN es
    ELSE LoadPage(AppendDecoded(es, Head(params)), Tail(params))

\* Lines 13-24: every page in order, then the entries are returned.
RECURSIVE LoadPages(_, _)
LoadPages(es, pages) ==
    IF pages = <<>> THEN es
    ELSE LoadPages(LoadPage(es, PageParameters(Head(pages))), Tail(pages))

\* load_registry(env) over the pages stored under the path of env.
LoadRegistry(pages) == LoadPages(<<>>, pages)

\* ----------------------------------------------------------------- state
VARIABLES
    registry,   \* ToolRegistry._instance
    ctxvar,     \* _current_context: its value in each thread's context
    pc,         \* where each thread's dispatch stands
    event,      \* the event of the dispatch
    user_jwt,   \* handler's local user_jwt
    call,       \* the spec and validated params handler is about to call
    seen,       \* what get_user_jwt() returned to the implementation
    ret,        \* what the implementation returned or raised
    calls,      \* calls of an implementation made by the dispatch
    resp,       \* the envelope the dispatch returns
    exc,        \* the exception leaving handler
    outcome,    \* "returned" or "raised" once handler has ended
    log,        \* telemetry records printed by the dispatch
    context_provider, \* what the host registered as context provider
    entries,    \* the directory entries given to load_toolset_proxies
    cpc,        \* where the client stands
    idx,        \* the entry that the loop of load_toolset_proxies is at
    described,  \* per entry reached: whether describe_tools failed, else its tools
    proxies,    \* the mapping under construction, then returned
    inv,        \* the current call of _invoke_lambda
    callKey,    \* the key of the proxy that the caller invoked
    callOut,    \* how that proxy call ended
    heap,       \* the ToolRegistry objects constructed so far
    instance,   \* ToolRegistry._instance: a position in heap, NoObject for None
    ipc,        \* where each thread stands in instance() and its caller
    held,       \* the registry that instance() returned to each thread
    returned,   \* the registries that calls of instance() have returned
    accepted,   \* the names that @tool has registered without raising
    lastOp,     \* the last completed register, @tool or describe_tools
    stored,     \* the pages of parameters stored under the environment's path
    loaded,     \* what load_registry returned
    app,        \* the add_tool calls that build_server has made on the MCP app
    hookEvent,  \* the event given to the policy validator
    hookResult  \* what the policy validator returned

serverVars == <<registry, ctxvar, pc, event, user_jwt, call, seen, ret, calls,
                resp, exc, outcome, log>>

clientVars == <<context_provider, entries, cpc, idx, described, proxies, inv,
                callKey, callOut>>

\* The state of the registry objects of a process and of the directory.
hostVars == <<app, hookEvent, hookResult>>

restVars == <<heap, instance, ipc, held, returned, accepted, lastOp,
              stored, loaded, app, hookEvent, hookResult>>

vars == <<registry, ctxvar, pc, event, user_jwt, call, seen, ret, calls,
          resp, exc, outcome, log, context_provider, entries, cpc, idx,
          described, proxies, inv, callKey, callOut, heap, instance, ipc,
          held, returned, accepted, lastOp, stored, loaded, app, hookEvent,
          hookResult>>

\* The client before load_toolset_proxies(es) is called, the host having
\* registered the provider p.
ClientStart(p, es) ==
    /\ context_provider = p
    /\ entries = es
    /\ cpc = "loop"
    /\ idx = 1
    /\ described = <<>>
    /\ proxies = <<>>
    /\ inv = None
    /\ callKey = None
    /\ callOut = None

\* A process that has constructed no registry, and a directory with the
\* given pages that has not been read.
RestStart(pages) ==
    /\ heap = <<>>
    /\ instance = NoObject
    /\ ipc = [t \in Threads |-> "idle"]
    /\ held = [t \in Threads |-> NoObject]
    /\ returned = {}
    /\ accepted = {}
    /\ lastOp = NoOp
    /\ stored = pages
    /\ loaded = None

\* An MCP app without tools, and a policy validator that is given ev.
HostStart(ev) ==
    /\ app = {}
    /\ hookEvent = ev
    /\ hookResult = None

\* The dispatch state of a process that has imported the math toolset.
ServerStart ==
    /\ registry = MathRegistry
    /\ ctxvar = [t \in Threads |-> DefaultContext]
    /\ pc = [t \in Threads |-> "idle"]
    /\ event = [t \in Threads |-> None]
    /\ user_jwt = [t \in Threads |-> ""]
    /\ call = [t \in Threads |-> None]
    /\ seen = [t \in Threads |-> None]
    /\ ret = [t \in Threads |-> None]
    /\ calls = [t \in Threads |-> 0]
    /\ resp = [t \in Threads |-> None]
    /\ exc = [t \in Threads |-> None]
    /\ outcome = [t \in Threads |-> "none"]
    /\ log = [t \in Threads |-> <<>>]

Init ==
    /\ ClientStart(None, <<>>)
    /\ RestStart(<<>>)
    /\ HostStart(None)
    /\ registry = MathRegistry
    /\ ctxvar = [t \in Threads |-> DefaultContext]
    /\ pc = [t \in Threads |-> "idle"]
    /\ event = [t \in Threads |-> None]
    /\ user_jwt = [t \in Threads |-> ""]
    /\ call = [t \in Threads |-> None]
    /\ seen = [t \in Threads |-> None]
    /\ ret = [t \in Threads |-> None]
    /\ calls = [t \in Threads |-> 0]
    /\ resp = [t \in Threads |-> None]
    /\ exc = [t \in Threads |-> None]
    /\ outcome = [t \in Threads |-> "none"]
    /\ log = [t \in Threads |-> <<>>]

\* The locals of a fresh call of handler on thread t.
Fresh(t, ev) ==
    /\ event' = [event EXCEPT ![t] = ev]
    /\ call' = [call EXCEPT ![t] = None]
    /\ seen' = [seen EXCEPT ![t] = None]
    /\ ret' = [ret EXCEPT ![t] = None]
    /\ calls' = [calls EXCEPT ![t] = 0]
    /\ resp' = [resp EXCEPT ![t] = None]
    /\ log' = [log EXCEPT ![t] = <<>>]

\* Lines 28-37 for an event, drawn from E, that is a dict: the token is
\* extracted and the invocation context of this thread is set.
Enter(t, E) ==
    /\ pc[t] = "idle"
    /\ \E ev \in E :
          /\ IsDict(ev)
          /\ Fresh(t, ev)
          /\ user_jwt' = [user_jwt EXCEPT ![t] = ExtractToken(ev)]
          /\ ctxvar' = SetRequestContext(ctxvar, t, RequestContext(ExtractToken(ev)))
    /\ exc' = [exc EXCEPT ![t] = None]
    /\ outcome' = [outcome EXCEPT ![t] = "none"]
    /\ pc' = [pc EXCEPT ![t] = "try"]
    /\ UNCHANGED registry
    /\ UNCHANGED clientVars
    /\ UNCHANGED restVars

\* Line 34 for an event, drawn from E, that is not a dict: event.get raises
\* AttributeError before the try statement is entered, so handler ends there.
EnterFault(t, E) ==
    /\ pc[t] = "idle"
    /\ \E ev \in E :
          /\ ~IsDict(ev)
          /\ Fresh(t, ev)
    /\ user_jwt' = [user_jwt EXCEPT ![t] = ""]
    /\ exc' = [exc EXCEPT ![t] = Exc("AttributeError", "object has no attribute 'get'")]
    /\ outcome' = [outcome EXCEPT ![t] = "raised"]
    /\ pc' = [pc EXCEPT ![t] = "done"]
    /\ UNCHANGED <<registry, ctxvar>>
    /\ UNCHANGED clientVars
    /\ UNCHANGED restVars

\* Lines 39-62 and 68 with the except clauses: the request is answered
\* without calling an implementation.
Dispatch(t) ==
    /\ pc[t] = "try"
    /\ LET body == TryBody(registry, event[t])
       IN  /\ body.kind # "call"
           /\ resp' = [resp EXCEPT ![t] =
                         IF body.kind = "return" THEN body.resp
                         ELSE Except(body.exc).resp]
    /\ pc' = [pc EXCEPT ![t] = "finally"]
    /\ registry' = RegistryAfter(registry, event[t])
    /\ UNCHANGED <<ctxvar, event, user_jwt, call, seen, ret, calls,
                   exc, outcome, log>>
    /\ UNCHANGED clientVars
    /\ UNCHANGED restVars

\* Lines 39-62 for an invoke that passes every check: handler stands
\* before line 63.
Prepare(t) ==
    /\ pc[t] = "try"
    /\ LET body == TryBody(registry, event[t])
       IN  /\ body.kind = "call"
           /\ call' = [call EXCEPT ![t] = [spec |-> body.spec, params |-> body.params]]
    /\ pc' = [pc EXCEPT ![t] = "call"]
    /\ registry' = RegistryAfter(registry, event[t])
    /\ UNCHANGED <<ctxvar, event, user_jwt, seen, ret, calls, resp,
                   exc, outcome, log>>
    /\ UNCHANGED clientVars
    /\ UNCHANGED restVars

\* Lines 63-66 with the except clauses: the implementation runs on this
\* thread, reading the token through get_user_jwt(), and returns or raises.
ToolCall(t, beh) ==
    /\ pc[t] = "call"
    /\ LET jwt == GetUserJwt(ctxvar, t)
           r == ToolFunc(call[t].spec, call[t].params, jwt, beh)
           after == IF r.raised THEN [kind |-> "raise", exc |-> r.exc]
                    ELSE AfterCall(call[t].spec, r.value)
           caught == Except(after.exc)
       IN  /\ seen' = [seen EXCEPT ![t] = JStr(jwt)]
           /\ ret' = [ret EXCEPT ![t] = r]
           /\ calls' = [calls EXCEPT ![t] = @ + 1]
           /\ resp' = [resp EXCEPT ![t] =
                         IF after.kind = "return" THEN after.resp ELSE caught.resp]
           /\ exc' = [exc EXCEPT ![t] =
                         IF after.kind = "raise" /\ ~caught.handled
                         THEN after.exc ELSE None]
    /\ pc' = [pc EXCEPT ![t] = "finally"]
    /\ UNCHANGED <<registry, ctxvar, event, user_jwt, call, outcome, log>>
    /\ UNCHANGED clientVars
    /\ UNCHANGED restVars

\* Lines 74-87: the telemetry record is printed, then handler returns its
\* envelope or lets the pending exception go on to the caller.
Finally(t) ==
    /\ pc[t] = "finally"
    /\ log' = [log EXCEPT ![t] = Append(@, Telemetry(event[t], user_jwt[t]))]
    /\ outcome' = [outcome EXCEPT ![t] = IF exc[t] = None THEN "returned" ELSE "raised"]
    /\ pc' = [pc EXCEPT ![t] = "done"]
    /\ UNCHANGED <<registry, ctxvar, event, user_jwt, call, seen, ret, calls,
                   resp, exc>>
    /\ UNCHANGED clientVars
    /\ UNCHANGED restVars

\* The caller has taken the envelope or the exception: the frame of handler
\* is gone and the thread is free for its next dispatch.  The value of the
\* ContextVar stays as the dispatch left it.
Return(t) ==
    /\ pc[t] = "done"
    /\ Fresh(t, None)
    /\ user_jwt' = [user_jwt EXCEPT ![t] = ""]
    /\ exc' = [exc EXCEPT ![t] = None]
    /\ outcome' = [outcome EXCEPT ![t] = "none"]
    /\ pc' = [pc EXCEPT ![t] = "idle"]
    /\ UNCHANGED <<registry, ctxvar>>
    /\ UNCHANGED clientVars
    /\ UNCHANGED restVars

\* One process serving one request at a time, over every event.
Next ==
    \/ Enter(MainThread, Events)
    \/ EnterFault(MainThread, Events)
    \/ Dispatch(MainThread)
    \/ Prepare(MainThread)
    \/ \E beh \in Behaviours : ToolCall(MainThread, beh)
    \/ Finally(MainThread)
    \/ Return(MainThread)

Spec == Init /\ [][Next]_vars

\* One process whose threads dispatch concurrently.
ConcNext ==
    \/ \E t \in Threads : Enter(t, ConcEvents)
    \/ \E t \in Threads : EnterFault(t, ConcEvents)
    \/ \E t \in Threads : Dispatch(t)
    \/ \E t \in Threads : Prepare(t)
    \/ \E t \in Threads, beh \in Behaviours : ToolCall(t, beh)
    \/ \E t \in Threads : Finally(t)
    \/ \E t \in Threads : Return(t)

ConcSpec == Init /\ [][ConcNext]_vars

\* -------------------------------------------------------- client actions
\* Line 26: the payload of the discovery call.
DescribePayload == JObj([action |-> JStr("describe_tools")])

\* The names of the tools of a manifest, in order.
ToolNames(tools) == [i \in DOMAIN tools.a |-> tools.a[i].o["name"].s]

\* Lines 21-26: the loop reaches the next entry and calls _invoke_lambda
\* with describe_tools against its endpoint reference.
BuildEntryStart ==
    /\ cpc = "loop"
    /\ idx <= Len(entries)
    /\ inv' = NewInvocation(EndpointRef(entries[idx]), DescribePayload)
    /\ cpc' = "describe"
    /\ UNCHANGED <<context_provider, entries, idx, described, proxies, callKey, callOut>>
    /\ UNCHANGED serverVars
    /\ UNCHANGED restVars

\* Lines 11-16: one attempt of the current _invoke_lambda call, with its
\* wait when tenacity goes on to another attempt.
Attempt ==
    /\ cpc \in {"describe", "invoke"}
    /\ inv.status = "running"
    /\ \E out \in TransportOutcomes : inv' = RetryStep(inv, out)
    /\ UNCHANGED <<context_provider, entries, cpc, idx, described, proxies,
                   callKey, callOut>>
    /\ UNCHANGED serverVars
    /\ UNCHANGED restVars

\* Lines 27-52: the discovery call returned; one proxy per tool of the
\* manifest goes into the mapping.
BuildEntryDone ==
    /\ cpc = "describe"
    /\ inv.status = "returned"
    /\ LET entry == entries[idx]
           tools == ManifestTools(inv.value)
       IN  /\ proxies' = AddProxies(proxies, ToolsetName(entry).s,
                                    EndpointRef(entry), tools.a)
           /\ described' = Append(described,
                                  [failed |-> FALSE, tools |-> ToolNames(tools)])
    /\ idx' = idx + 1
    /\ cpc' = "loop"
    /\ UNCHANGED <<context_provider, entries, inv, callKey, callOut>>
    /\ UNCHANGED serverVars
    /\ UNCHANGED restVars

\* Line 26: the discovery call raised after its retries; nothing in
\* load_toolset_proxies catches it, so the build ends with the exception
\* and returns no mapping.
BuildRaise ==
    /\ cpc = "describe"
    /\ inv.status = "raised"
    /\ described' = Append(described, [failed |-> TRUE, tools |-> <<>>])
    /\ cpc' = "build_raised"
    /\ UNCHANGED <<context_provider, entries, idx, proxies, inv, callKey, callOut>>
    /\ UNCHANGED serverVars
    /\ UNCHANGED restVars

\* Line 54: every entry has been handled, the mapping is returned.
BuildReturn ==
    /\ cpc = "loop"
    /\ idx > Len(entries)
    /\ cpc' = "built"
    /\ UNCHANGED <<context_provider, entries, idx, described, proxies, inv,
                   callKey, callOut>>
    /\ UNCHANGED serverVars
    /\ UNCHANGED restVars

\* Lines 34-35: the caller invokes a proxy of the mapping with keyword
\* arguments; _call builds the envelope and calls _invoke_lambda.
ProxyCall ==
    /\ cpc \in {"built", "called"}
    /\ \E key \in DOMAIN proxies, kwargs \in KwargsSet :
          /\ callKey' = JStr(key)
          /\ inv' = NewInvocation(proxies[key].function_arn,
                                  InvokePayload(proxies[key].method, kwargs))
    /\ callOut' = None
    /\ cpc' = "invoke"
    /\ UNCHANGED <<context_provider, entries, idx, described, proxies>>
    /\ UNCHANGED serverVars
    /\ UNCHANGED restVars

\* Lines 35-39: _invoke_lambda has ended; its exception goes on to the
\* caller, its response is turned into the proxy's result or RuntimeError.
ProxyDone ==
    /\ cpc = "invoke"
    /\ inv.status # "running"
    /\ callOut' = IF inv.status = "raised"
                  THEN [kind |-> "raised", exc |-> inv.exc]
                  ELSE CallOutcome(inv.value)
    /\ cpc' = "called"
    /\ UNCHANGED <<context_provider, entries, idx, described, proxies, inv, callKey>>
    /\ UNCHANGED serverVars
    /\ UNCHANGED restVars

ClientInit ==
    /\ \E p \in ProviderSet, es \in EntryLists : ClientStart(p, es)
    /\ RestStart(<<>>)
    /\ HostStart(None)
    /\ registry = MathRegistry
    /\ ctxvar = [t \in Threads |-> DefaultContext]
    /\ pc = [t \in Threads |-> "idle"]
    /\ event = [t \in Threads |-> None]
    /\ user_jwt = [t \in Threads |-> ""]
    /\ call = [t \in Threads |-> None]
    /\ seen = [t \in Threads |-> None]
    /\ ret = [t \in Threads |-> None]
    /\ calls = [t \in Threads |-> 0]
    /\ resp = [t \in Threads |-> None]
    /\ exc = [t \in Threads |-> None]
    /\ outcome = [t \in Threads |-> "none"]
    /\ log = [t \in Threads |-> <<>>]

\* A host that builds the proxies of a directory and then calls them.
ClientNext ==
    \/ BuildEntryStart
    \/ Attempt
    \/ BuildEntryDone
    \/ BuildRaise
    \/ BuildReturn
    \/ ProxyCall
    \/ ProxyDone

ClientSpec == ClientInit /\ [][ClientNext]_vars

\* ----------------------------------------------------------- build_server
\* mcp_server.py lines 30-32: build_server goes through the mapping that
\* load_toolset_proxies returned and calls app.add_tool once per proxy,
\* with the name cut from its key.
AddTools ==
    /\ cpc = "built"
    /\ app' = {[name |-> AppToolName(fq_name), fq_name |-> fq_name] :
                  fq_name \in DOMAIN proxies}
    /\ cpc' = "served"
    /\ UNCHANGED <<context_provider, entries, idx, described, proxies, inv,
                   callKey, callOut>>
    /\ UNCHANGED serverVars
    /\ UNCHANGED <<heap, instance, ipc, held, returned, accepted, lastOp,
                   stored, loaded, hookEvent, hookResult>>

\* mcp_server.py lines 21-34: build_server builds the proxies of the
\* directory and registers them with the MCP app.
ServerNext ==
    \/ BuildEntryStart
    \/ Attempt
    \/ BuildEntryDone
    \/ BuildRaise
    \/ BuildReturn
    \/ AddTools

ServerSpec == ClientInit /\ [][ServerNext]_vars

\* ------------------------------------------------------ registry actions
\* Lines 21-24: the program constructs a registry of its own.
Construct ==
    /\ Len(heap) < MaxRegistries
    /\ heap' = Append(heap, NewToolRegistry)
    /\ UNCHANGED <<instance, ipc, held, returned, accepted, lastOp, stored, loaded, hostVars>>
    /\ UNCHANGED serverVars
    /\ UNCHANGED clientVars

\* Lines 32-35: register(spec) called on the registry r.
RegisterCall(r, spec) ==
    /\ r \in DOMAIN heap
    /\ LET out == Register(heap[r], spec)
       IN  /\ heap' = [heap EXCEPT ![r] = out.reg]
           /\ lastOp' = [kind |-> "register", reg |-> r, spec |-> spec,
                         raised |-> out.raised, exc |-> out.exc,
                         before |-> heap[r]]
    /\ UNCHANGED <<instance, ipc, held, returned, accepted, stored, loaded, hostVars>>
    /\ UNCHANGED serverVars
    /\ UNCHANGED clientVars

RegInit ==
    ClientStart(None, <<>>) /\ RestStart(<<>>) /\ HostStart(None) /\ ServerStart

\* A program that registers specs in registries of its own, one call after
\* the other.
RegNext ==
    \/ Construct
    \/ \E r \in 1..MaxRegistries, spec \in SpecSet : RegisterCall(r, spec)

RegSpec == RegInit /\ [][RegNext]_vars

\* A thread calls ToolRegistry.instance(): from @tool (decorators.py line
\* 19), from a dispatch (handler.py line 30) or from the assignments of the
\* toolset identity (lambda_handler.py lines 40-41).
Begin(t) ==
    /\ ipc[t] = "idle"
    /\ ipc' = [ipc EXCEPT ![t] = "line28"]
    /\ UNCHANGED <<heap, instance, held, returned, accepted, lastOp, stored, loaded, hostVars>>
    /\ UNCHANGED serverVars
    /\ UNCHANGED clientVars

\* Line 28: cls._instance is read and compared with None.
InstanceCheck(t) ==
    /\ ipc[t] = "line28"
    /\ ipc' = [ipc EXCEPT ![t] = IF instance = NoObject THEN "line29" ELSE "line30"]
    /\ UNCHANGED <<heap, instance, held, returned, accepted, lastOp, stored, loaded, hostVars>>
    /\ UNCHANGED serverVars
    /\ UNCHANGED clientVars

\* Line 29: a registry is constructed and assigned to cls._instance,
\* whatever that holds by now.
InstanceCreate(t) ==
    /\ ipc[t] = "line29"
    /\ heap' = Append(heap, NewToolRegistry)
    /\ instance' = Len(heap) + 1
    /\ ipc' = [ipc EXCEPT ![t] = "line30"]
    /\ UNCHANGED <<held, returned, accepted, lastOp, stored, loaded, hostVars>>
    /\ UNCHANGED serverVars
    /\ UNCHANGED clientVars

\* Line 30: cls._instance is read again and returned to the caller.
InstanceReturn(t) ==
    /\ ipc[t] = "line30"
    /\ held' = [held EXCEPT ![t] = instance]
    /\ returned' = returned \cup {instance}
    /\ ipc' = [ipc EXCEPT ![t] = "body"]
    /\ UNCHANGED <<heap, instance, accepted, lastOp, stored, loaded, hostVars>>
    /\ UNCHANGED serverVars
    /\ UNCHANGED clientVars

\* The caller of instance() on thread t is done with the registry.
Leave(t) ==
    /\ ipc' = [ipc EXCEPT ![t] = "idle"]
    /\ held' = [held EXCEPT ![t] = NoObject]

\* decorators.py lines 20-39 for the decoration d, on the registry that
\* instance() returned at line 19.
Decorate(t, d) ==
    /\ ipc[t] = "body"
    /\ LET out == ToolDecorator(heap[held[t]], d)
       IN  /\ heap' = [heap EXCEPT ![held[t]] = out.reg]
           /\ accepted' = IF out.raised THEN accepted
                          ELSE accepted \cup {ToolName(d)}
           /\ lastOp' = [kind |-> "tool", reg |-> held[t], d |-> d,
                         raised |-> out.raised, exc |-> out.exc,
                         before |-> heap[held[t]], called |-> out.called]
    /\ Leave(t)
    /\ UNCHANGED <<instance, returned, stored, loaded, hostVars>>
    /\ UNCHANGED serverVars
    /\ UNCHANGED clientVars

\* handler.py lines 30 and 39-49 for {"action": "describe_tools"} on the
\* registry that instance() returned; the context and telemetry steps are
\* those of Enter and Finally.
DescribeTools(t) ==
    /\ ipc[t] = "body"
    /\ lastOp' = [kind |-> "describe", reg |-> heap[held[t]],
                  resp |-> TryBody(heap[held[t]], DescribePayload).resp]
    /\ Leave(t)
    /\ UNCHANGED <<heap, instance, returned, accepted, stored, loaded, hostVars>>
    /\ UNCHANGED serverVars
    /\ UNCHANGED clientVars

\* lambda_handler.py line 40 or 41: ToolRegistry.instance().<field> = value.
SetMetadata(t, field, value) ==
    /\ ipc[t] = "body"
    /\ heap' = [heap EXCEPT ![held[t]] =
                  IF field = "toolset_name"
                  THEN [@ EXCEPT !.toolset_name = value]
                  ELSE [@ EXCEPT !.toolset_version = value]]
    /\ lastOp' = [kind |-> "meta", reg |-> held[t]]
    /\ Leave(t)
    /\ UNCHANGED <<instance, returned, accepted, stored, loaded, hostVars>>
    /\ UNCHANGED serverVars
    /\ UNCHANGED clientVars

\* decorators.py lines 41-45 and test_math.py lines 6-9: the function that
\* @tool has just returned is called directly with a params model.
DirectCall(t, beh) ==
    /\ ipc[t] = "idle"
    /\ lastOp.kind = "tool" /\ ~lastOp.raised
    /\ \E params \in DirectParams(lastOp.d.f) :
          lastOp' = [kind |-> "direct", f |-> lastOp.d.f, params |-> params,
                     beh |-> beh,
                     value |-> Wrapper(lastOp.d.f, params, GetUserJwt(ctxvar, t), beh)]
    /\ UNCHANGED <<heap, instance, ipc, held, returned, accepted, stored, loaded, hostVars>>
    /\ UNCHANGED serverVars
    /\ UNCHANGED clientVars

ToolsetInit ==
    ClientStart(None, <<>>) /\ RestStart(<<>>) /\ HostStart(None) /\ ServerStart

\* The start of a toolset process on its main thread: tools are decorated,
\* the toolset identity is assigned and manifests are asked for.
ToolsetNext ==
    \/ Begin(MainThread)
    \/ InstanceCheck(MainThread)
    \/ InstanceCreate(MainThread)
    \/ InstanceReturn(MainThread)
    \/ \E d \in Decorations : Decorate(MainThread, d)
    \/ DescribeTools(MainThread)
    \/ \E m \in Metadata : SetMetadata(MainThread, m[1], m[2])
    \/ \E beh \in Behaviours : DirectCall(MainThread, beh)

ToolsetSpec == ToolsetInit /\ [][ToolsetNext]_vars

\* What the threads of a process do with the registry at its start: one
\* tool is decorated and the toolset is named.
ConcDecorations == {[f |-> AddFunction, name |-> None]}
ConcMetadata == {<<"toolset_name", JStr("math")>>}

\* A process whose threads call ToolRegistry.instance() from its start.
ProcNext ==
    \/ \E t \in Threads : Begin(t)
    \/ \E t \in Threads : InstanceCheck(t)
    \/ \E t \in Threads : InstanceCreate(t)
    \/ \E t \in Threads : InstanceReturn(t)
    \/ \E t \in Threads, d \in ConcDecorations : Decorate(t, d)
    \/ \E t \in Threads : DescribeTools(t)
    \/ \E t \in Threads, m \in ConcMetadata : SetMetadata(t, m[1], m[2])

ProcSpec == ToolsetInit /\ [][ProcNext]_vars

\* ----------------------------------------------------- directory actions
\* load_registry(env) is called and returns its list.
LoadRegistryCall ==
    /\ loaded = None
    /\ loaded' = [raised |-> FALSE, value |-> JList(LoadRegistry(stored))]
    /\ UNCHANGED <<heap, instance, ipc, held, returned, accepted, lastOp, stored, hostVars>>
    /\ UNCHANGED serverVars
    /\ UNCHANGED clientVars

DirInit ==
    /\ ClientStart(None, <<>>)
    /\ \E pages \in PageLists : RestStart(pages)
    /\ HostStart(None)
    /\ ServerStart

DirNext == LoadRegistryCall

DirSpec == DirInit /\ [][DirNext]_vars

\* ------------------------------------------- hooks/validator/handler.py
ALLOWED_RUNTIME == {JStr("python3.12")}
MAX_TIMEOUT == 30
MAX_MEMORY == 1024
REQUIRED_TAGS == {"toolset_id", "owner", "env"}
STACK_TAG_GATE_KEY == "toolforest-tools"
STACK_TAG_GATE_VALUE == JStr("1")

\* Lines 15-20: _success() and _failure(msg).  A message is kept up to the
\* first value that the f-string formats into it.
Success == [status |-> "SUCCESS", message |-> "ok"]
Failure(msg) == [status |-> "FAILURE", message |-> msg]

\* Lines 68-69: any Exception raised inside the try becomes a failure.
Unhandled == Failure("Unhandled error")

\* int(v) of lines 40-41: a number, a string of digits, or an exception.
IntOf(v) ==
    CASE v.k = "num" -> [raised |-> FALSE, value |-> v.n]
      [] v.k = "str" /\ IsNumericStr(v.s) -> [raised |-> FALSE, value |-> ParseFloat(v.s)]
      [] OTHER -> [raised |-> TRUE, value |-> 0]

\* Line 47 and the iteration of line 48: a falsy Tags is the empty list, a
\* list gives its elements, a string or a dict gives strings, and a
\* number other than 0 is not iterable.
TagsList(v) ==
    CASE v.k = "list" -> [raised |-> FALSE, a |-> v.a]
      [] v.k = "num" /\ v.n # 0 -> [raised |-> TRUE, a |-> <<>>]
      [] OTHER -> [raised |-> FALSE, a |-> <<>>]

\* Lines 48-49: the required tags that are the Key of no dict of the list.
MissingTags(tags_list) ==
    LET present == {DictGet(tags_list[i], "Key", None) :
                       i \in {j \in DOMAIN tags_list : IsDict(tags_list[j])}}
    IN  {t \in REQUIRED_TAGS : JStr(t) \notin present}

\* Lines 37-52: the checks of a Lambda function.
ValidateFunction(resource_props) ==
    IF ~IsDict(resource_props) THEN Unhandled
    ELSE IF DictGet(resource_props, "Runtime", None) \notin ALLOWED_RUNTIME
    THEN Failure("Runtime not allowed")
    ELSE LET timeout == IntOf(DictGet(resource_props, "Timeout", JNum(0)))
             memory == IntOf(DictGet(resource_props, "MemorySize", JNum(0)))
             tags_list == TagsList(DictGet(resource_props, "Tags", JList(<<>>)))
         IN  IF timeout.raised \/ memory.raised THEN Unhandled
             ELSE IF timeout.value > MAX_TIMEOUT THEN Failure("Timeout exceeds max")
             ELSE IF memory.value > MAX_MEMORY THEN Failure("Memory exceeds max")
             ELSE IF tags_list.raised THEN Unhandled
             ELSE IF MissingTags(tags_list.a) # {}
             THEN Failure("Missing required tags")
             ELSE Success

\* Lines 55-59: the alias of a stack that has an env tag is named after it.
ValidateAlias(resource_props, stack_tags) ==
    IF ~IsDict(resource_props) THEN Unhandled
    ELSE LET alias_name == DictGet(resource_props, "Name", None)
             env == DictGet(stack_tags, "env", None)
         IN  IF Truthy(env) /\ alias_name # env
             THEN Failure("Alias name must equal env")
             ELSE Success

\* Lines 26-69: handler(event, _context).  A .get on a value that is not a
\* dict raises AttributeError, which line 68 catches like every Exception.
ValidatorHandler(ev) ==
    LET hook_context == DictGet(ev, "hookContext", EmptyDict)
        request_data == DictGet(ev, "requestData", EmptyDict)
    IN  IF ~IsDict(hook_context) \/ ~IsDict(request_data) THEN Unhandled
        ELSE LET target_name == DictGet(hook_context, "targetName", None)
                 stack_tags == DictGet(hook_context, "stackTags", EmptyDict)
                 resource_props == DictGet(request_data, "resourceProperties", EmptyDict)
             IN  IF ~IsDict(stack_tags) THEN Unhandled
                 ELSE IF DictGet(stack_tags, STACK_TAG_GATE_KEY, None) # STACK_TAG_GATE_VALUE
                 THEN Success
                 ELSE IF target_name = JStr("AWS::Lambda::Function")
                 THEN ValidateFunction(resource_props)
                 ELSE IF target_name = JStr("AWS::Lambda::Alias")
                 THEN ValidateAlias(resource_props, stack_tags)
                 ELSE Success

\* The events given to the validator: each of hookContext, stackTags,
\* requestData and resourceProperties is absent, of another type, or a
\* dict, and the properties are within and beyond every limit.
GateTag == STACK_TAG_GATE_KEY :> STACK_TAG_GATE_VALUE
Tag(key, value) == JObj([Key |-> JStr(key), Value |-> JStr(value)])
TargetNameVals ==
    {Absent, JStr("AWS::Lambda::Function"), JStr("AWS::Lambda::Alias"),
     JStr("AWS::IAM::Role"), JStr("AWS::S3::Bucket")}
StackTagsVals ==
    {Absent, JList(<<>>), JObj(GateTag), JObj(GateTag @@ [env |-> JStr("dev")]),
     JObj([env |-> JStr("dev")])}
HookContextVals ==
    {Absent, JStr("ctx")} \cup
    {MkObj([targetName |-> t, stackTags |-> s]) :
        t \in TargetNameVals, s \in StackTagsVals}
TagsVals ==
    {Absent, JNull, JNum(1),
     JList(<<Tag("toolset_id", "math"), Tag("owner", "team"), Tag("env", "dev")>>),
     JList(<<Tag("owner", "team"), JStr("env")>>)}
ResourcePropsVals ==
    {Absent, JNull} \cup
    {MkObj([Runtime |-> r, Timeout |-> t, MemorySize |-> m, Tags |-> g, Name |-> n]) :
        r \in {Absent, JStr("python3.12"), JStr("python3.11")},
        t \in {Absent, JNum(MAX_TIMEOUT), JNum(MAX_TIMEOUT + 1), JStr("abc")},
        m \in {Absent, JNum(MAX_MEMORY), JNum(MAX_MEMORY + 1)},
        g \in TagsVals,
        n \in {Absent, JStr("dev"), JStr("prod")}}
RequestDataVals ==
    {Absent, JStr("data")} \cup
    {MkObj([resourceProperties |-> p]) : p \in ResourcePropsVals}
HookEvents ==
    {MkObj([hookContext |-> h, requestData |-> r]) :
        h \in HookContextVals, r \in RequestDataVals}

\* The hooks framework calls the validator with the event.
ValidateCall ==
    /\ hookResult = None
    /\ hookResult' = ValidatorHandler(hookEvent)
    /\ UNCHANGED <<heap, instance, ipc, held, returned, accepted, lastOp,
                   stored, loaded, app, hookEvent>>
    /\ UNCHANGED serverVars
    /\ UNCHANGED clientVars

HookInit ==
    /\ ClientStart(None, <<>>)
    /\ RestStart(<<>>)
    /\ \E ev \in HookEvents : HostStart(ev)
    /\ ServerStart

HookNext == ValidateCall

HookSpec == HookInit /\ [][HookNext]_vars

\* ---------------------------------------------------------------- claims
\* The members of the event of thread t, None when absent.
Action(t) == DictGet(event[t], "action", None)
Method(t) == DictGet(event[t], "method", None)
Params(t) == DictGet(event[t], "params", Absent)

\* Thread t has ended a dispatch of an invoke envelope.
InvokeDone(t) ==
    pc[t] = "done" /\ IsDict(event[t]) /\ Action(t) = JStr("invoke")

\* The invoke of thread t names a registered method.
MethodRegistered(t) == IsStr(Method(t)) /\ Method(t).s \in ListNames(registry)

\* The dispatch of thread t returned an error envelope of the given type.
ErrorOfType(t, type) ==
    /\ outcome[t] = "returned"
    /\ "error" \in DOMAIN resp[t]
    /\ resp[t].error.type = type

\* C1: in every interleaving of concurrent dispatches, the token that a
\* tool implementation reads through get_user_jwt() is the token of the
\* request of its own dispatch, hence never that of another dispatch in
\* flight with a different token.
C1_OwnToken ==
    \A t \in Threads :
        seen[t] # None =>
            /\ seen[t] = JStr(ExtractToken(event[t]))
            /\ \A u \in Threads :
                  (u # t /\ pc[u] \in {"try", "call", "finally"}
                         /\ ExtractToken(event[u]) # ExtractToken(event[t]))
                  => seen[t] # JStr(ExtractToken(event[u]))

\* Two dispatches in flight at once, each having read a different token.
C1_Witness ==
    \E t, u \in Threads :
        /\ pc[t] = "finally" /\ pc[u] = "finally"
        /\ seen[t] = JStr("tokA") /\ seen[u] = JStr("tokB")

\* C2: for every event and every behaviour of the implementation, handler
\* ends by returning an envelope; it never raises to its caller.
C2_NeverRaises == \A t \in Threads : outcome[t] # "raised"

\* C3: an invoke of a registered method with params that pass the schema
\* calls the implementation once with the validated params, and when that
\* returns an instance of the declared result model the response is
\* {result: r} with r the fields of the returned instance.
C3_InvokeReturnsResult ==
    \A t \in Threads :
        (/\ InvokeDone(t) /\ MethodRegistered(t)
         /\ IsDict(Params(t))
         /\ Validate(GetTool(registry, Method(t).s).spec.params_model, Params(t)).ok)
        => /\ calls[t] = 1
           /\ call[t].spec.name = Method(t).s
           /\ call[t].params = Validate(call[t].spec.params_model, Params(t)).value
           /\ (~ret[t].raised /\ ret[t].value.k = "instance"
                 /\ ret[t].value.cls = call[t].spec.result_model)
              => /\ outcome[t] = "returned"
                 /\ resp[t] = [result |-> JObj(ret[t].value.f)]

\* add called with x = 2 given as a number and y = 1 given as a numeric
\* string has answered {result: {value: 3}}.
C3_Witness ==
    \E t \in Threads :
        /\ InvokeDone(t) /\ Method(t) = JStr("add")
        /\ Params(t) = JObj([x |-> JNum(2), y |-> JStr("1")])
        /\ resp[t] = [result |-> JObj([value |-> JNum(3)])]

\* C4: an invoke whose method is a string that is not registered answers
\* with an error of type BadRequest.
C4_UnknownMethodBadRequest ==
    \A t \in Threads :
        (InvokeDone(t) /\ IsStr(Method(t)) /\ ~MethodRegistered(t))
        => ErrorOfType(t, "BadRequest")

\* C5: an invoke whose method is missing or not a string, or whose params
\* is missing or not an object, answers with an error of type BadRequest
\* and calls no implementation.
C5_MissingOrMistypedBadRequest ==
    \A t \in Threads :
        (InvokeDone(t) /\ (~IsStr(Method(t)) \/ ~IsDict(Params(t))))
        => ErrorOfType(t, "BadRequest") /\ calls[t] = 0

\* C6: an invoke of a registered method whose params is an object that
\* fails the parameter schema answers with an error of type
\* ValidationError.
C6_SchemaFailureValidationError ==
    \A t \in Threads :
        (/\ InvokeDone(t) /\ MethodRegistered(t)
         /\ IsDict(Params(t))
         /\ ~Validate(GetTool(registry, Method(t).s).spec.params_model, Params(t)).ok)
        => ErrorOfType(t, "ValidationError")

\* add invoked without its required y has answered ValidationError.
C6_Witness ==
    \E t \in Threads :
        /\ InvokeDone(t) /\ Method(t) = JStr("add")
        /\ Params(t) = JObj([x |-> JNum(1)])
        /\ ErrorOfType(t, "ValidationError")

\* C7: when the implementation raises, the response is an error of type
\* InternalError whose message is the message of the exception.
C7_RaiseIsInternalError ==
    \A t \in Threads :
        (pc[t] = "done" /\ ret[t] # None /\ ret[t].raised)
        => ErrorOfType(t, "InternalError")
           /\ resp[t].error.message = ret[t].exc.message

\* C8: when the implementation returns a value that does not conform to
\* the declared result schema, the response is an error of type
\* InternalError and carries no result.
C8_NonConformingIsInternalError ==
    \A t \in Threads :
        (/\ pc[t] = "done" /\ ret[t] # None /\ ~ret[t].raised
         /\ ~ConformsToSchema(ret[t].value, call[t].spec.result_model))
        => ErrorOfType(t, "InternalError") /\ "result" \notin DOMAIN resp[t]

\* C9: every envelope that handler returns has exactly one of the members
\* result and error.
C9_ExactlyOneMember ==
    \A t \in Threads :
        outcome[t] = "returned" =>
            Cardinality(DOMAIN resp[t] \cap {"result", "error"}) = 1

\* An error envelope has been returned for a failed invoke.
C9_Witness ==
    \E t \in Threads :
        InvokeDone(t) /\ outcome[t] = "returned" /\ "error" \in DOMAIN resp[t]

\* C10: the type of every error envelope that handler returns is one of
\* BadRequest, ValidationError and InternalError.
C10_ClosedErrorTypes ==
    \A t \in Threads :
        (outcome[t] = "returned" /\ "error" \in DOMAIN resp[t])
        => resp[t].error.type \in {"BadRequest", "ValidationError", "InternalError"}

\* The context member of the event of thread t, Absent when missing.
Context(t) == DictGet(event[t], "context", Absent)

\* The request of thread t carries a context object with a string token.
HasStringToken(t) ==
    /\ IsDict(Context(t))
    /\ "user_jwt" \in DOMAIN Context(t).o
    /\ IsStr(Context(t).o["user_jwt"])

\* The request of thread t has no context, a context that is not an
\* object, or a context object without a token.
HasNoToken(t) ==
    \/ Context(t) = Absent
    \/ ~IsDict(Context(t))
    \/ "user_jwt" \notin DOMAIN Context(t).o

\* C11: outside any dispatch get_user_jwt() returns the empty string,
\* whatever dispatches have completed on the thread before.
C11_ContextDiscarded ==
    \A t \in Threads : pc[t] = "idle" => GetUserJwt(ctxvar, t) = ""

\* C12: from the moment the try block is entered, hence before the action
\* is examined, the invocation context holds the string token of the
\* request's context, or "" when the request has no context, a context that
\* is not an object or a context without a token; that is the value the
\* implementation reads.
C12_ContextBeforeAction ==
    \A t \in Threads :
        (pc[t] \in {"try", "call", "finally"} /\ (HasStringToken(t) \/ HasNoToken(t)))
        => LET token == IF HasStringToken(t) THEN Context(t).o["user_jwt"].s ELSE ""
           IN  /\ GetUserJwt(ctxvar, t) = token
               /\ seen[t] # None => seen[t] = JStr(token)

\* An implementation has read "" in a dispatch whose context is a string,
\* not an object.
C12_Witness ==
    \E t \in Threads :
        /\ pc[t] = "finally" /\ Context(t) = JStr("tokA")
        /\ seen[t] = JStr("")

\* C13: every dispatch that has ended has printed exactly one telemetry
\* record, which holds the requested action and a flag that is true
\* exactly when the request carried a non-empty token, and nothing else
\* of the request.
C13_OneTelemetryRecord ==
    \A t \in Threads :
        pc[t] = "done" =>
            /\ Len(log[t]) = 1
            /\ DOMAIN log[t][1] = {"level", "event", "action", "has_user_jwt"}
            /\ log[t][1].action = Action(t)
            /\ log[t][1].has_user_jwt = (ExtractToken(event[t]) # "")

\* The attempts of the current _invoke_lambda call and the last of them.
Attempts == inv.attempts
LastAttempt == Attempts[Len(Attempts)]

\* A proxy call has ended and the last attempt brought a body that decoded.
CalledWithResponse == cpc = "called" /\ inv.status = "returned"

\* The body of an attempt is JSON text of an object with the given member.
BodyHas(a, member) ==
    a.completed /\ a.body.text = "json" /\ member \in DOMAIN a.body.v.o

C15_ThreeAttemptsThenRaise ==
    inv # None =>
        /\ Len(Attempts) <= 3
        /\ (Len(Attempts) = 3 /\ \A i \in 1..3 : ~Attempts[i].completed)
           => /\ inv.status = "raised"
              /\ inv.exc.cls = "RetryError"
              /\ cpc = "called" => (callOut.kind = "raised" /\ callOut.exc = inv.exc)

\* A proxy call has raised RetryError after three failed attempts.
C15_Witness ==
    /\ cpc = "called" /\ Len(Attempts) = 3
    /\ \A i \in 1..3 : ~Attempts[i].completed
    /\ callOut.kind = "raised" /\ callOut.exc.cls = "RetryError"

\* C16: a proxy call whose response is {error: {type: "ValidationError",
\* message: "m"}} raises RuntimeError("ValidationError: m"), and the attempt
\* that brought the error is the last one: no attempt follows it, so when
\* it is the first there is exactly one.
C16_ErrorRaisedNotRetried ==
    /\ (CalledWithResponse /\ BodyHas(LastAttempt, "error"))
       => /\ callOut.kind = "raised"
          /\ callOut.exc.cls = "RuntimeError"
          /\ callOut.exc.message = "ValidationError: m"
    /\ (cpc \in {"invoke", "called"})
       => \A i \in 1..(Len(Attempts) - 1) : ~BodyHas(Attempts[i], "error")

\* The first attempt brought the application error and the call raised
\* after that single attempt.
C16_Witness ==
    /\ cpc = "called" /\ Len(Attempts) = 1
    /\ BodyHas(Attempts[1], "error")
    /\ callOut.kind = "raised"

\* C17: an attempt is followed by another one only if its remote call did
\* not complete.
C17_RetryOnlyOnTransportFailure ==
    inv # None => \A i \in 1..(Len(Attempts) - 1) : ~Attempts[i].completed

\* The payload that the current _invoke_lambda call sends.
SentPayload == inv.payload.v

\* C18: with a context provider registered, the envelope of every proxy
\* call carries context.user_jwt equal to the provider's token; without
\* one it carries no context.
C18_ContextAttached ==
    cpc \in {"invoke", "called"} =>
        IF context_provider # None
        THEN /\ "context" \in DOMAIN SentPayload.o
             /\ SentPayload.o["context"] = context_provider
        ELSE "context" \notin DOMAIN SentPayload.o

\* load_toolset_proxies has ended, by returning or by raising.
BuildEnded == cpc \in {"built", "build_raised", "invoke", "called"}

\* The endpoint reference that the spec gives an entry.
ExpectedEndpoint(entry) ==
    IF "alias_arn" \in DOMAIN entry.o /\ entry.o["alias_arn"] \notin {JNull, JStr("")}
    THEN entry.o["alias_arn"]
    ELSE entry.o["lambda_function_arn"]

\* The name under which the tools of an entry are filed.
ExpectedName(entry) ==
    IF "name" \in DOMAIN entry.o THEN entry.o["name"].s ELSE "unknown"

\* C19: once the build has ended, for every entry whose describe_tools call
\* succeeded and every tool of its manifest, the returned mapping has the
\* key "<name>.<tool>" bound to that entry's endpoint reference and that
\* tool's method name.
C19_ProxyBoundToEntry ==
    BuildEnded =>
        \A i \in DOMAIN described :
            ~described[i].failed =>
                \A j \in DOMAIN described[i].tools :
                    LET method == described[i].tools[j]
                        key == FormatKey(ExpectedName(entries[i]), method)
                    IN  /\ cpc # "build_raised"
                        /\ key \in DOMAIN proxies
                        /\ proxies[key] =
                              [function_arn |-> ExpectedEndpoint(entries[i]),
                               method |-> method]

\* C20: a describe_tools call that fails after its retries does not end
\* the build: every entry of the list is reached and the mapping is
\* returned with the tools of every entry whose call succeeded.
C20_BuildSurvivesFailure ==
    BuildEnded =>
        /\ cpc # "build_raised"
        /\ Len(described) = Len(entries)
        /\ \A i \in DOMAIN described :
              \A j \in DOMAIN described[i].tools :
                  FormatKey(ExpectedName(entries[i]), described[i].tools[j])
                      \in DOMAIN proxies

\* The last completed operation was a call of register.
LastRegister == lastOp.kind = "register"

\* C21: register raises the duplicate-tool error (ValueError, "Tool '<name>'
\* already registered") exactly when the name of the spec is already in
\* the registry it is called on; a name held by another registry does not
\* count, so the same name goes into each of two registries.
C21_DuplicateRejectedPerRegistry ==
    LastRegister =>
        /\ lastOp.raised <=> (lastOp.spec.name \in ListNames(lastOp.before))
        /\ lastOp.raised =>
              lastOp.exc = Exc("ValueError", AlreadyRegistered(lastOp.spec.name))
        /\ ~lastOp.raised =>
              GetTool(heap[lastOp.reg], lastOp.spec.name).spec = lastOp.spec

\* The second of two registries has accepted whoami's spec under the name
\* add while the first one holds add's own spec under that name.
C21_Witness ==
    /\ LastRegister /\ ~lastOp.raised /\ lastOp.spec = OtherAddSpec
    /\ \E r \in DOMAIN heap :
          /\ r # lastOp.reg
          /\ "add" \in ListNames(heap[r])
          /\ GetTool(heap[r], "add").spec = AddSpec

\* C22: in every step, every name of every registry stays registered and
\* bound to the same spec, and a call of register that raises leaves the
\* table of its registry as it was.
C22_WriteOncePerName ==
    [][/\ \A r \in DOMAIN heap :
             \A name \in ListNames(heap[r]) :
                 /\ name \in ListNames(heap'[r])
                 /\ GetTool(heap'[r], name).spec = GetTool(heap[r], name).spec
       /\ (lastOp' # lastOp /\ lastOp'.raised)
             => heap'[lastOp'.reg].tools = heap[lastOp'.reg].tools]_vars

\* A registry that holds add and whoami has rejected another spec named
\* add and still binds add to the spec registered first.
C22_Witness ==
    /\ LastRegister /\ lastOp.raised /\ lastOp.spec = OtherAddSpec
    /\ ListNames(heap[lastOp.reg]) = {"add", "whoami"}
    /\ GetTool(heap[lastOp.reg], "add").spec = AddSpec

\* The last completed operation was a describe_tools dispatch.
LastDescribe == lastOp.kind = "describe"

\* C23: describe_tools answers {result: manifest}, and the tools of the
\* manifest are as many as the tools of the registry, one descriptor per
\* registered tool with that tool's name, so that the descriptor names are
\* the registered names.
C23_OneDescriptorPerTool ==
    LastDescribe =>
        /\ DOMAIN lastOp.resp = {"result"}
        /\ LET tools == lastOp.resp.result.tools
               reg == lastOp.reg
           IN  /\ Len(tools) = Len(reg.tools)
               /\ \A i \in DOMAIN reg.tools : tools[i].name = reg.tools[i].name
               /\ {tools[i].name : i \in DOMAIN tools} = ListNames(reg)
               /\ Cardinality(ListNames(reg)) = Len(tools)

\* A registry with the two tools whoami and add, registered in that order,
\* has been described with two descriptors.
C23_Witness ==
    /\ LastDescribe
    /\ Len(lastOp.reg.tools) = 2 /\ lastOp.reg.tools[1].name = "whoami"
    /\ Len(lastOp.resp.result.tools) = 2

\* The stored parameters of all pages, in directory order.
RECURSIVE StoredParams(_)
StoredParams(pages) ==
    IF pages = <<>> THEN <<>>
    ELSE PageParameters(Head(pages)) \o StoredParams(Tail(pages))

\* The stored value is the text of a JSON value.
Decodes(param) == param.Value.text = "json"

\* C24: load_registry returns, without raising, the decoded values of the
\* stored parameters whose value is JSON text, in directory order, and
\* nothing else; with nothing stored it returns the empty list.
C24_LoadsDecodableEntries ==
    loaded # None =>
        LET good == SelectSeq(StoredParams(stored), Decodes)
        IN  /\ ~loaded.raised
            /\ loaded.value = JList([i \in DOMAIN good |-> good[i].Value.v])
            /\ StoredParams(stored) = <<>> => loaded.value = JList(<<>>)

\* A corrupt value stored before the math entry: the math entry alone is
\* returned.
C24_Witness ==
    /\ loaded # None
    /\ Len(StoredParams(stored)) = 2
    /\ StoredParams(stored)[1].Value = GarbageBody
    /\ loaded.value = JList(<<MathEntry>>)

\* C25: a request object whose action is neither "describe_tools" nor
\* "invoke", a missing action included, is answered with an error of type
\* BadRequest, and no implementation is called for it.
C25_UnknownActionBadRequest ==
    \A t \in Threads :
        (/\ pc[t] = "done" /\ IsDict(event[t])
         /\ Action(t) \notin {JStr("describe_tools"), JStr("invoke")})
        => ErrorOfType(t, "BadRequest") /\ calls[t] = 0

\* A request without an action member has been answered with BadRequest.
C25_Witness ==
    \E t \in Threads :
        /\ pc[t] = "done" /\ IsDict(event[t])
        /\ "action" \notin DOMAIN event[t].o
        /\ ErrorOfType(t, "BadRequest")

\* C26: a call of _invoke_lambda waits only after an attempt that is
\* followed by another one, hence at most twice, and the k-th wait lasts
\* min(2000 ms, 200 ms * 2^(k-1)): 200 ms, then 400 ms.
C26_BackoffWaits ==
    inv # None =>
        /\ Len(inv.waits) <= 2
        /\ Len(inv.waits) =
              IF inv.status = "running" THEN Len(Attempts) ELSE Len(Attempts) - 1
        /\ \A k \in DOMAIN inv.waits :
              inv.waits[k] = Min2(2000, 200 * Pow2(k - 1))

\* A call has ended after three attempts and the two waits of 200 ms and
\* 400 ms between them.
C26_Witness ==
    /\ inv # None /\ inv.status # "running"
    /\ Len(Attempts) = 3
    /\ inv.waits = <<200, 400>>

\* The params that handler validates: the member of the event, {} when the
\* event has none.
RawParams(t) == DictGet(event[t], "params", EmptyDict)

\* C27: a dispatch calls the implementation at most once, and only for an
\* invoke whose method is registered and whose params pass the schema of
\* the method; a dispatch that ends in BadRequest or ValidationError, and
\* a describe_tools dispatch, has called no implementation.
C27_CallOnlyAfterChecks ==
    \A t \in Threads :
        /\ calls[t] <= 1
        /\ calls[t] = 1 =>
              /\ Action(t) = JStr("invoke") /\ MethodRegistered(t)
              /\ IsDict(RawParams(t))
              /\ Validate(GetTool(registry, Method(t).s).spec.params_model,
                          RawParams(t)).ok
        /\ (pc[t] = "done" /\ IsDict(event[t]) /\ Action(t) = JStr("describe_tools"))
              => calls[t] = 0
        /\ (ErrorOfType(t, "BadRequest") \/ ErrorOfType(t, "ValidationError"))
              => calls[t] = 0

\* C28: a proxy call whose last attempt brought a response returns only
\* when that response has a result member; for a response with an error
\* member or with neither member the call raises.
C28_ReturnsOnlyResult ==
    CalledWithResponse =>
        IF BodyHas(LastAttempt, "result")
        THEN callOut.kind = "returned"
        ELSE callOut.kind = "raised"

\* The build has returned its mapping.
BuildReturned == cpc \in {"built", "invoke", "called"}

\* The tools that the described entries advertise: an entry and a method.
Advertised ==
    UNION {{<<entries[i], described[i].tools[j]>> : j \in DOMAIN described[i].tools} :
             i \in DOMAIN described}

\* The key under which line 52 files an advertised tool.
KeyOf(a) == FormatKey(ToolsetName(a[1]).s, a[2])

\* C29: in the mapping that the build returns, two advertised tools that
\* differ in their entry or in their method have different keys, so the
\* mapping has as many proxies as tools were advertised.
C29_KeysCollisionFree ==
    BuildReturned =>
        /\ \A a, b \in Advertised : a # b => KeyOf(a) # KeyOf(b)
        /\ Cardinality(DOMAIN proxies) = Cardinality(Advertised)

\* C30: every call of ToolRegistry.instance() in a process returns the
\* same registry, also when the first calls run concurrently, and every
\* name that @tool has registered is in the registry that instance()
\* gives to later callers.
C30_OneRegistryPerProcess ==
    /\ Cardinality(returned) <= 1
    /\ instance # NoObject => accepted \subseteq ListNames(heap[instance])

\* C31: no step of a dispatch changes the registry: its names, the spec
\* bound to each name, toolset_name and toolset_version stay as they were
\* before the call, whatever the request and however the dispatch ends.
C31_DispatchLeavesRegistry ==
    [][/\ ListNames(registry') = ListNames(registry)
       /\ \A name \in ListNames(registry) :
             GetTool(registry', name).spec = GetTool(registry, name).spec
       /\ registry'.toolset_name = registry.toolset_name
       /\ registry'.toolset_version = registry.toolset_version]_vars

\* A dispatch that called add has returned its result and the registry
\* is the one that the import of the math toolset built.
C31_Witness ==
    \E t \in Threads :
        /\ InvokeDone(t) /\ calls[t] = 1 /\ outcome[t] = "returned"
        /\ "result" \in DOMAIN resp[t]
        /\ registry = MathRegistry

\* The last completed operation was an application of @tool.
LastDecoration == lastOp.kind = "tool"

\* The params hint or the return hint of the decorated function is not a
\* Pydantic model.
BadAnnotation(d) ==
    ~IsBaseModel(HintsGet(d.f, "params")) \/ ~IsBaseModel(HintsGet(d.f, "return"))

\* C33: @tool applied to a function whose params or return annotation is
\* not a Pydantic model raises TypeError and leaves the registry as it
\* was, and no registry ever holds a spec whose params_model or
\* result_model is not a Pydantic model.
C33_BadAnnotationRejected ==
    /\ (LastDecoration /\ BadAnnotation(lastOp.d))
          => /\ lastOp.raised /\ lastOp.exc.cls = "TypeError"
             /\ heap[lastOp.reg] = lastOp.before
    /\ \A r \in DOMAIN heap :
          \A i \in DOMAIN heap[r].tools :
              /\ IsBaseModel(heap[r].tools[i].params_model)
              /\ IsBaseModel(heap[r].tools[i].result_model)

\* scale, which takes a float, has been rejected by a registry that holds
\* two tools.
C33_Witness ==
    /\ LastDecoration /\ lastOp.d.f = ScaleFunction /\ lastOp.raised
    /\ Len(heap[lastOp.reg].tools) = 2

\* C35: an application of @tool, register included, makes no call of the
\* function and leaves the toolset identity and every spec registered
\* before as they were, adding one spec when it is accepted and none when
\* it raises; and the decorated function called directly returns or raises
\* what the function itself does.
C35_RegistrationOnlyAddsEntry ==
    /\ LastDecoration =>
          LET before == lastOp.before
              after == heap[lastOp.reg]
          IN  /\ lastOp.called = <<>>
              /\ after.toolset_name = before.toolset_name
              /\ after.toolset_version = before.toolset_version
              /\ Len(after.tools) =
                    Len(before.tools) + (IF lastOp.raised THEN 0 ELSE 1)
              /\ \A i \in DOMAIN before.tools : after.tools[i] = before.tools[i]
    /\ lastOp.kind = "direct" =>
          lastOp.value = ToolFunc(FunctionSpec(lastOp.f), lastOp.params,
                                  GetUserJwt(ctxvar, MainThread), lastOp.beh)

\* whoami has been added to a registry that is named math and holds add,
\* which it still does.
C35_Witness ==
    /\ LastDecoration /\ ~lastOp.raised /\ lastOp.d.f = WhoAmIFunction
    /\ heap[lastOp.reg].toolset_name = JStr("math")
    /\ heap[lastOp.reg].tools = <<AddSpec, WhoAmISpec>>

\* C32: every entry that load_registry returns is a JSON object, which
\* load_toolset_proxies reads (lines 22-23) without an exception; a
\* stored value that is JSON but no object is left out.
C32_OnlyObjectsLoaded ==
    loaded # None =>
        \A i \in DOMAIN loaded.value.a :
            /\ IsDict(loaded.value.a[i])
            /\ ~ReadEntry(loaded.value.a[i]).raised

\* C34: build_server registers every proxy with the app, and proxies of
\* different keys, such as the add of two toolsets, under different tool
\* names.
C34_ToolsetsKeptApart ==
    cpc = "served" =>
        /\ {c.fq_name : c \in app} = DOMAIN proxies
        /\ \A c1, c2 \in app : c1.fq_name # c2.fq_name => c1.name # c2.name

\* Each of the four members of the event is absent or a dict.
ExpectedShape(ev) ==
    LET hook_context == DictGet(ev, "hookContext", EmptyDict)
        request_data == DictGet(ev, "requestData", EmptyDict)
    IN  /\ IsDict(hook_context) /\ IsDict(request_data)
        /\ IsDict(DictGet(hook_context, "stackTags", EmptyDict))
        /\ IsDict(DictGet(request_data, "resourceProperties", EmptyDict))

\* All four members of the event are there, and each is a dict.
WellFormed(ev) ==
    /\ ExpectedShape(ev)
    /\ "hookContext" \in DOMAIN ev.o /\ "requestData" \in DOMAIN ev.o
    /\ "stackTags" \in DOMAIN ev.o["hookContext"].o
    /\ "resourceProperties" \in DOMAIN ev.o["requestData"].o

\* The stack of the event has the gating tag.
Gated(ev) ==
    DictGet(DictGet(DictGet(ev, "hookContext", EmptyDict), "stackTags", EmptyDict),
            STACK_TAG_GATE_KEY, None) = STACK_TAG_GATE_VALUE

\* C36: the validator answers SUCCESS to every event in which hookContext,
\* stackTags, requestData or resourceProperties is missing or of another
\* type, and FAILURE only to a well-formed event of a gated stack.
C36_MalformedFallsBack ==
    hookResult # None =>
        /\ ~WellFormed(hookEvent) => hookResult.status = "SUCCESS"
        /\ hookResult.status = "FAILURE" => WellFormed(hookEvent) /\ Gated(hookEvent)

====
